---- MODULE Spec2Model ----
(***************************************************************************)
(* Eight-point estimation of the fundamental matrix (src/utils.py) and the *)
(* two error metrics of src/Q1.py.                                         *)
(*                                                                         *)
(* Numbers are exact elements of Q(sqrt 2) extended with NaN: the tuple    *)
(* <<a, b, d>> stands for (a + b*sqrt(2)) / d with d > 0, and <<0, 0, 0>>  *)
(* for NaN.  The point sets the caller supplies are chosen so that every   *)
(* square root the code takes is exact.                                    *)
(***************************************************************************)
EXTENDS Integers, Sequences, FiniteSets, TLC

(***************************************************************************)
(* Bounds of the model.                                                    *)
(***************************************************************************)
MaxN == 9          \* largest number of correspondences the caller supplies
MaxW == 2          \* largest third homogeneous coordinate of a finite point
MaxCalls == 2      \* estimation calls the caller makes on its arrays

(***************************************************************************)
(* Program constants.                                                      *)
(***************************************************************************)
MinPoints == 8     \* utils.py: "if npts < 8"

(***************************************************************************)
(* Exact arithmetic.                                                       *)
(***************************************************************************)
Abs(n) == IF n < 0 THEN -n ELSE n

RECURSIVE Gcd(_, _)
Gcd(m, n) == IF n = 0 THEN m ELSE Gcd(n, m % n)

NaN == <<0, 0, 0>>
IsNaN(x) == x[3] = 0

QNorm(a, b, d) ==
    IF d = 0 THEN NaN
    ELSE LET s == IF d < 0 THEN -1 ELSE 1
             g == Gcd(Gcd(Abs(a), Abs(b)), Abs(d))
         IN  <<(s * a) \div g, (s * b) \div g, (s * d) \div g>>

Q(k) == <<k, 0, 1>>
Sqrt2 == <<0, 1, 1>>

\* sums and products cancel common factors first, to keep the integers small
QAdd(x, y) ==
    IF IsNaN(x) \/ IsNaN(y) THEN NaN
    ELSE LET g == Gcd(x[3], y[3])
             p == y[3] \div g
             q == x[3] \div g
         IN  QNorm(x[1] * p + y[1] * q, x[2] * p + y[2] * q, x[3] * p)

QNeg(x) == IF IsNaN(x) THEN NaN ELSE <<-x[1], -x[2], x[3]>>

QSub(x, y) == QAdd(x, QNeg(y))

QMul(x, y) ==
    IF IsNaN(x) \/ IsNaN(y) THEN NaN
    ELSE LET g == Gcd(Gcd(Abs(x[1]), Abs(x[2])), y[3])
             h == Gcd(Gcd(Abs(y[1]), Abs(y[2])), x[3])
         IN  QNorm((x[1] \div g) * (y[1] \div h) + 2 * (x[2] \div g) * (y[2] \div h),
                   (x[1] \div g) * (y[2] \div h) + (x[2] \div g) * (y[1] \div h),
                   (x[3] \div h) * (y[3] \div g))

\* x / y.  1/(a + b sqrt2) = (a - b sqrt2)/(a^2 - 2 b^2); 0/0 and NaN give NaN.
\* A nonzero number over zero (inf in floating point) does not arise for the
\* point sets of this model: the mean distance is zero only when all finite
\* points coincide.
QDiv(x, y) ==
    IF IsNaN(x) \/ IsNaN(y) THEN NaN
    ELSE QNorm((x[1] * y[1] - 2 * x[2] * y[2]) * y[3],
               (x[2] * y[1] - x[1] * y[2]) * y[3],
               x[3] * (y[1] * y[1] - 2 * y[2] * y[2]))

ISqrt(n) == CHOOSE r \in 0..n : r * r = n

\* np.sqrt of a non-negative rational whose square root is rational.
QSqrt(x) == IF IsNaN(x) THEN NaN ELSE <<ISqrt(x[1]), 0, ISqrt(x[3])>>

\* abs(x) of a rational
QAbs(x) == IF IsNaN(x) THEN NaN ELSE <<Abs(x[1]), Abs(x[2]), x[3]>>

\* abs(w) > np.finfo(float).eps.  Every nonzero magnitude of the model is far
\* above eps = 2^-52, and a comparison with NaN is false.
GtEps(x) == ~IsNaN(x) /\ (x[1] # 0 \/ x[2] # 0)

RECURSIVE QSum(_)
QSum(s) == IF Len(s) = 0 THEN Q(0) ELSE QAdd(Head(s), QSum(Tail(s)))

\* np.mean: the mean of an empty slice is NaN (with a RuntimeWarning).
Mean(s) == IF Len(s) = 0 THEN NaN ELSE QDiv(QSum(s), Q(Len(s)))

\* np.dot of two vectors of equal length
Dot(u, v) == QSum([k \in 1..Len(u) |-> QMul(u[k], v[k])])

\* np.dot of two matrices (sequences of rows)
MatMul(M, P) ==
    [r \in 1..Len(M) |->
        [c \in 1..Len(P[1]) |-> QSum([k \in 1..Len(P) |-> QMul(M[r][k], P[k][c])])]]

Transpose(M) == [c \in 1..Len(M[1]) |-> [r \in 1..Len(M) |-> M[r][c]]]

HasNaN(M) == \E r \in 1..Len(M) : \E c \in 1..Len(M[r]) : IsNaN(M[r][c])

RECURSIVE SelectIdx(_, _)
\* the indices i of 1..n (ascending) with mask[i], as numpy's boolean indexing
SelectIdx(mask, n) ==
    IF n = 0 THEN << >>
    ELSE IF mask[n] THEN Append(SelectIdx(mask, n - 1), n)
         ELSE SelectIdx(mask, n - 1)

(***************************************************************************)
(* The caller's point data.  Point i of a view is a lattice point of a     *)
(* circle of radius 5 (antipodal pairs, then the centre when N is odd), so *)
(* centroids are integral and distances to the centroid are 5 or 0.  The   *)
(* right view is the left one turned by 90 degrees about another centre.   *)
(***************************************************************************)
Offsets ==
    << <<3, 4>>, <<-3, -4>>, <<4, -3>>, <<-4, 3>>, <<5, 0>>, <<-5, 0>>,
       <<0, 5>>, <<0, -5>>, <<-3, 4>>, <<3, -4>>, <<4, 3>>, <<-4, -3>> >>

Offset(n, i) == IF n % 2 = 1 /\ i = n THEN <<0, 0>> ELSE Offsets[i]

\* Euclidean pixel coordinates of point i of n in the view "L" or "R"
Pt(side, n, i) ==
    LET o == Offset(n, i)
    IN  IF side = "L" THEN <<10 + o[1], 10 + o[2]>> ELSE <<20 - o[2], 12 + o[1]>>

Other(side) == IF side = "L" THEN "R" ELSE "L"

Masks == {"none", "pair", "all"}

\* whether point i is a point at infinity (third coordinate 0) under the mask
AtInfinity(mask, i) == mask = "all" \/ (mask = "pair" /\ i \in {1, 2})

\* homogeneous coordinates (w*x, w*y, w) of a finite point, (x, y, 0) of a
\* point at infinity
Hom(side, n, i, w, mask) ==
    LET p == Pt(side, n, i)
    IN  IF AtInfinity(mask, i) THEN <<p[1], p[2], 0>> ELSE <<w * p[1], w * p[2], w>>

\* coordinate k of point i in an array with d coordinates per point
Coord(side, d, n, i, k, w, mask) ==
    IF d <= 2 THEN Pt(side, n, i)[k]
    ELSE IF d = 4 THEN (Pt(side, n, i) \o Pt(Other(side), n, i))[k]
    ELSE (Hom(side, n, i, w, mask) \o Hom(Other(side), n, i, w, mask))[k]

\* np.asarray of the caller's points: a d x n (fat) or n x d (tall) array
MkArray(side, d, n, tall, w, mask) ==
    [shape |-> IF tall THEN <<n, d>> ELSE <<d, n>>,
     data  |-> IF tall
               THEN [i \in 1..n |-> [k \in 1..d |-> Q(Coord(side, d, n, i, k, w, mask))]]
               ELSE [k \in 1..d |-> [i \in 1..n |-> Q(Coord(side, d, n, i, k, w, mask))]]]

\* a one-dimensional array of n numbers
MkFlat(side, n) ==
    [shape |-> <<n>>, data |-> << [i \in 1..n |-> Q(Pt(side, n, i)[1])] >>]

Forms == {"pair", "single", "empty"}
Variants == {"same", "fewer", "flat"}

\* the inputs the caller can build: form, coordinates per point d, number of
\* points n, layout, weight and mask of the homogeneous coordinates, and how the
\* second array of a pair differs from the first
Inputs ==
    { x \in [form : Forms, d : 2..6, n : (MinPoints - 1)..MaxN, tall : BOOLEAN,
             w : 1..MaxW, mask : Masks, variant : Variants] :
        /\ x.form = "pair" => x.d \in {2, 3, 5}
        /\ x.form = "single" => x.d \in {4, 5, 6} /\ x.variant # "fewer"
        /\ x.form = "empty" =>
              x.d = 2 /\ x.n = MinPoints /\ ~x.tall /\ x.variant = "same"
        /\ (x.d \in {2, 4} \/ x.variant = "flat") => x.w = 1 /\ x.mask = "none"
        /\ x.variant = "flat" => x.d \in {2, 4} /\ ~x.tall }

ArgsOf(x) ==
    IF x.form = "pair" THEN <<"a", "b">>
    ELSE IF x.form = "single" THEN <<"a">> ELSE << >>

\* the caller's arrays, by name
HeapOf(x) ==
    LET left  == IF x.variant = "flat" THEN MkFlat("L", x.n)
                 ELSE MkArray("L", x.d, x.n, x.tall, x.w, x.mask)
        right == IF x.variant = "flat" THEN MkFlat("R", x.n)
                 ELSE MkArray("R", IF x.variant = "fewer" THEN x.d - 1 ELSE x.d,
                              x.n, x.tall, x.w, x.mask)
    IN  IF x.form = "pair" THEN [id \in {"a", "b"} |-> IF id = "a" THEN left ELSE right]
        ELSE IF x.form = "single" THEN [id \in {"a"} |-> left]
        ELSE [id \in {} |-> left]

(***************************************************************************)
(* Arrays and views.  A 3 x n point set is either an array of its own      *)
(* (base = "") or a view of a caller's array: rows off+1..off+3 of it, or  *)
(* of its transpose.                                                       *)
(***************************************************************************)
NoView == [base |-> "", tr |-> FALSE, off |-> 0, rows |-> 0, n |-> 0, own |-> << >>]

Own(P) == [base |-> "", tr |-> FALSE, off |-> 0, rows |-> Len(P), n |-> Len(P[1]), own |-> P]

View(id, tr, off, n) == [base |-> id, tr |-> tr, off |-> off, rows |-> 3, n |-> n, own |-> << >>]

\* the values seen through a view
Val(h, v) ==
    IF v.base = "" THEN v.own
    ELSE [k \in 1..3 |-> [i \in 1..v.n |->
             IF v.tr THEN h[v.base].data[i][v.off + k] ELSE h[v.base].data[v.off + k][i]]]

\* assignment through a view: the values P land in the array the view is of
WriteBack(h, v, P) ==
    IF v.base = "" THEN h
    ELSE LET old == h[v.base].data
         IN  [h EXCEPT ![v.base].data =
                 [r \in 1..Len(old) |-> [c \in 1..Len(old[r]) |->
                     LET k == (IF v.tr THEN c ELSE r) - v.off
                         i == IF v.tr THEN r ELSE c
                     IN  IF k \in 1..3 THEN P[k][i] ELSE old[r][c]]]]

\* np.ones((1, npts))
OnesRow(n) == [i \in 1..n |-> Q(1)]

Max2(s) == IF s[1] >= s[2] THEN s[1] ELSE s[2]
Min2(s) == IF s[1] <= s[2] THEN s[1] ELSE s[2]

(***************************************************************************)
(* process_input_pointpairs                                                *)
(***************************************************************************)
MsgSameSize == "the two arguments should have same size"
Msg2D == "Each input has to be a 2D array"
MsgAtLeast8 == "At least 8 points are needed to compute the fundamental matrix"
MsgPairDims == "x1 and x2 must be 2xN or Nx2 or 3xN or Nx3"
MsgSingleDims == "Single argument x must be 4xN or Nx4 or 6xN or Nx6"
MsgWrongArgs == "Wrong number of arguments supplied"
Msg3xN == "pts must be 3xN"

\* the checks of the two-argument form, in the order of the code: the message
\* of the ShapeError raised, or "" when the arrays pass
PairCheckDimsFirst(s1, s2) ==
    IF s1 # s2 THEN MsgSameSize
    ELSE IF Len(s1) # 2 THEN Msg2D
    ELSE IF Min2(s1) \notin {2, 3} THEN MsgPairDims
    ELSE IF Max2(s1) < MinPoints THEN MsgAtLeast8
    ELSE ""

PairCheck(s1, s2) ==
    IF s1 # s2 THEN MsgSameSize
    ELSE IF Len(s1) # 2 THEN Msg2D
    ELSE IF Max2(s1) < MinPoints THEN MsgAtLeast8
    ELSE IF Min2(s1) \notin {2, 3} THEN MsgPairDims
    ELSE ""

\* the checks of the single-argument form
SingleCheck(s) ==
    IF Len(s) # 2 THEN Msg2D
    ELSE IF Max2(s) < MinPoints THEN MsgAtLeast8
    ELSE IF Min2(s) \notin {4, 6} THEN MsgSingleDims
    ELSE ""

\* where the right view starts in a combined array
SecondHalfSame(d) == 0

SecondHalf(d) == d \div 2

Rejected(msg) == [ok |-> FALSE, msg |-> msg, x1 |-> NoView, x2 |-> NoView, npts |-> 0]

Accepted(x1, x2, npts) == [ok |-> TRUE, msg |-> "", x1 |-> x1, x2 |-> x2, npts |-> npts]

\* rows off+1..off+2 of the array, oriented 2 x n, with a row of ones appended
Euclidean(arr, off, npts) ==
    LET fat == arr.shape[1] = Min2(arr.shape)
    IN  Own([k \in 1..3 |->
               IF k = 3 THEN OnesRow(npts)
               ELSE [i \in 1..npts |->
                       IF fat THEN arr.data[off + k][i] ELSE arr.data[i][off + k]]])

process_input_pointpairs(h, args) ==
    IF Len(args) = 2 THEN
        LET x1 == h[args[1]]
            x2 == h[args[2]]
            err == PairCheck(x1.shape, x2.shape)
        IN  IF err # "" THEN Rejected(err)
            ELSE LET npts == Max2(x1.shape)
                     d == Min2(x1.shape)
                 IN  IF d = 2
                     THEN Accepted(Euclidean(x1, 0, npts), Euclidean(x2, 0, npts), npts)
                     ELSE Accepted(View(args[1], x1.shape[2] = 3, 0, npts),
                                   View(args[2], x1.shape[2] = 3, 0, npts), npts)
    ELSE IF Len(args) = 1 THEN
        LET x == h[args[1]]
            err == SingleCheck(x.shape)
        IN  IF err # "" THEN Rejected(err)
            ELSE LET npts == Max2(x.shape)
                     d == Min2(x.shape)
                 IN  IF d = 4
                     THEN Accepted(Euclidean(x, 0, npts),
                                   Euclidean(x, SecondHalf(d), npts), npts)
                     ELSE Accepted(View(args[1], x.shape[1] # 6, 0, npts),
                                   View(args[1], x.shape[1] # 6, SecondHalf(d), npts), npts)
    ELSE Rejected(MsgWrongArgs)

(***************************************************************************)
(* normalize2dpts                                                          *)
(***************************************************************************)
\* the similarity transform of lines 148-152
Similarity(scale, c) ==
    << <<scale, Q(0), QMul(QNeg(scale), c[1])>>,
       <<Q(0), scale, QMul(QNeg(scale), c[2])>>,
       <<Q(0), Q(0), Q(1)>> >>

\* The finite points are de-homogenized in place (the writes go through the
\* view pts), then centred and scaled into a new array.
normalize2dpts(h, pts) ==
    IF pts.rows # 3
    THEN [ok |-> FALSE, msg |-> Msg3xN, heap |-> h, newpts |-> << >>, T |-> << >>]
    ELSE
    LET P == Val(h, pts)
        finiteind == [i \in 1..pts.n |-> GtEps(QAbs(P[3][i]))]
        P1 == [k \in 1..3 |-> [i \in 1..pts.n |->
                 IF ~finiteind[i] THEN P[k][i]
                 ELSE IF k = 3 THEN Q(1) ELSE QDiv(P[k][i], P[3][i])]]
        idx == SelectIdx(finiteind, pts.n)
        c == << Mean([j \in 1..Len(idx) |-> P1[1][idx[j]]]),
                Mean([j \in 1..Len(idx) |-> P1[2][idx[j]]]) >>
        newp0 == [j \in 1..Len(idx) |-> QSub(P1[1][idx[j]], c[1])]
        newp1 == [j \in 1..Len(idx) |-> QSub(P1[2][idx[j]], c[2])]
        meandist == Mean([j \in 1..Len(idx) |->
                        QSqrt(QAdd(QMul(newp0[j], newp0[j]), QMul(newp1[j], newp1[j])))])
        scale == QDiv(Sqrt2, meandist)
        T == Similarity(scale, c)
    IN  [ok |-> TRUE, msg |-> "", heap |-> WriteBack(h, pts, P1),
         newpts |-> MatMul(T, P1), T |-> T]

(***************************************************************************)
(* constraint_matrix: x1 and x2 are 3 x N, the result is N x 9.            *)
(***************************************************************************)
constraint_matrix(p1, p2) ==
    [i \in 1..Len(p1[1]) |->
        << QMul(p2[1][i], p1[1][i]), QMul(p2[1][i], p1[2][i]), p2[1][i],
           QMul(p2[2][i], p1[1][i]), QMul(p2[2][i], p1[2][i]), p2[2][i],
           p1[1][i], p1[2][i], Q(1) >>]

(***************************************************************************)
(* The solver.  np.linalg.svd is the library's: the estimate is kept as    *)
(* the term it is computed by, the right singular vector of the smallest   *)
(* singular value of A, then its rank-2 approximation, then T2' F T1.      *)
(* On an array holding NaN LAPACK reports an illegal value and numpy       *)
(* raises LinAlgError.                                                     *)
(***************************************************************************)
NoF == [nullOf |-> << >>, rank2 |-> FALSE, denorm |-> << >>]

\* lines 91-93: F = V[:, 8].reshape(3, 3)
NullVector(A) == [nullOf |-> A, rank2 |-> FALSE, denorm |-> << >>]

\* lines 96-97
LowerRank(F) == [F EXCEPT !.rank2 = TRUE]

\* line 101
Denormalize(F, T1, T2) == [F EXCEPT !.denorm = <<T2, T1>>]

NoResult == [kind |-> "none"]
Matrix(F) == [kind |-> "matrix", F |-> F]
ReturnedNone == [kind |-> "None"]
Raised(exc) == [kind |-> "raised", exc |-> exc]

\* eight_point_algorithm as one function: the heap it leaves and its outcome
eight_point_algorithm(h, v1, v2, n) ==
    LET n1 == normalize2dpts(h, v1)
        n2 == normalize2dpts(n1.heap, v2)
    IN  IF n /\ ~n1.ok THEN [heap |-> h, result |-> ReturnedNone, msg |-> n1.msg]
        ELSE IF n /\ ~n2.ok
        THEN [heap |-> n1.heap, result |-> ReturnedNone, msg |-> n2.msg]
        ELSE
        LET A == IF n THEN constraint_matrix(n1.newpts, n2.newpts)
                 ELSE constraint_matrix(Val(h, v1), Val(h, v2))
            hp == IF n THEN n2.heap ELSE h
        IN  IF HasNaN(A) THEN [heap |-> hp, result |-> Raised("LinAlgError"), msg |-> ""]
            ELSE [heap |-> hp, msg |-> "",
                  result |-> Matrix(IF n THEN Denormalize(LowerRank(NullVector(A)), n1.T, n2.T)
                                    ELSE LowerRank(NullVector(A)))]

\* fundamental_matrix as one function
fundamental_matrix(h, args, n) ==
    LET p == process_input_pointpairs(h, args)
    IN  IF ~p.ok THEN [heap |-> h, result |-> ReturnedNone, msg |-> p.msg]
        ELSE eight_point_algorithm(h, p.x1, p.x2, n)

(***************************************************************************)
(* State.                                                                  *)
(***************************************************************************)
VARIABLES
    inp,        \* what the caller built its arrays from
    heap,       \* the caller's arrays
    pc,         \* where the current call stands
    normalize,  \* the flag of the current (or last) call
    x1, x2,     \* the point sets of the call
    T1, T2,     \* the transforms of the normalizer
    A,          \* the constraint matrix
    F,          \* the estimate
    ran,        \* the stages the call has run
    err,        \* the message of the exception in flight
    printed,    \* what the call printed
    result,     \* what the last call returned to the caller
    calls       \* calls made so far

pvars == <<inp, heap, pc, normalize, x1, x2, T1, T2, A, F, ran, err, printed, result, calls>>

VARIABLES
    rpc,        \* where the solver stands
    rnorm,      \* whether normalization was requested
    rF0,        \* the reshaped null vector
    rsvd,       \* what np.linalg.svd(F) returned
    rF,         \* the estimate
    rT          \* <<T1, T2>> of the normalizer

rvars == <<rpc, rnorm, rF0, rsvd, rF, rT>>

VARIABLES
    img_left,   \* the module's global: unbound, None, or an image
    margs,      \* the lists last handed to a metric, as they are after the call
    mcall,      \* the metric last called
    mres        \* what it returned or raised

mvars == <<img_left, margs, mcall, mres>>

vars == <<pvars, rvars, mvars>>

(***************************************************************************)
(* The caller and one estimation call, stage by stage.                     *)
(***************************************************************************)

Orig == HeapOf(inp)

PStart(x) ==
    /\ inp = x
    /\ heap = HeapOf(x)
    /\ pc = "idle"
    /\ normalize = FALSE
    /\ x1 = NoView /\ x2 = NoView
    /\ T1 = << >> /\ T2 = << >>
    /\ A = << >>
    /\ F = NoF
    /\ ran = {}
    /\ err = ""
    /\ printed = ""
    /\ result = NoResult
    /\ calls = 0

PInit == \E x \in Inputs : PStart(x)

\* the caller makes no estimation call
PIdle == PStart([form |-> "empty", d |-> 2, n |-> MinPoints, tall |-> FALSE,
                 w |-> 1, mask |-> "none", variant |-> "same"])

\* F = fundamental_matrix(*args, normalize=n)
Call(n) ==
    /\ pc = "idle"
    /\ calls < MaxCalls
    /\ calls' = calls + 1
    /\ normalize' = n
    /\ pc' = "process"
    /\ x1' = NoView /\ x2' = NoView /\ T1' = << >> /\ T2' = << >>
    /\ A' = << >> /\ F' = NoF /\ ran' = {} /\ err' = "" /\ printed' = ""
    /\ result' = NoResult
    /\ UNCHANGED <<inp, heap, rvars, mvars>>

\* line 14
Process ==
    /\ pc = "process"
    /\ LET p == process_input_pointpairs(heap, ArgsOf(inp))
       IN  /\ x1' = p.x1 /\ x2' = p.x2
           /\ err' = p.msg
           /\ pc' = IF ~p.ok THEN "except" ELSE IF normalize THEN "norm1" ELSE "build"
    /\ ran' = ran \cup {"preprocess"}
    /\ UNCHANGED <<inp, heap, normalize, T1, T2, A, F, printed, result, calls, rvars, mvars>>

\* line 83
Normalize1 ==
    /\ pc = "norm1"
    /\ LET r == normalize2dpts(heap, x1)
       IN  /\ heap' = r.heap
           /\ x1' = IF r.ok THEN Own(r.newpts) ELSE x1
           /\ T1' = r.T
           /\ err' = r.msg
           /\ pc' = IF r.ok THEN "norm2" ELSE "except"
    /\ ran' = ran \cup {"normalize"}
    /\ UNCHANGED <<inp, normalize, x2, T2, A, F, printed, result, calls, rvars, mvars>>

\* line 84
Normalize2 ==
    /\ pc = "norm2"
    /\ LET r == normalize2dpts(heap, x2)
       IN  /\ heap' = r.heap
           /\ x2' = IF r.ok THEN Own(r.newpts) ELSE x2
           /\ T2' = r.T
           /\ err' = r.msg
           /\ pc' = IF r.ok THEN "build" ELSE "except"
    /\ UNCHANGED <<inp, normalize, x1, T1, A, F, ran, printed, result, calls, rvars, mvars>>

\* line 87
Build ==
    /\ pc = "build"
    /\ A' = constraint_matrix(Val(heap, x1), Val(heap, x2))
    /\ pc' = "solve"
    /\ ran' = ran \cup {"constraint"}
    /\ UNCHANGED <<inp, heap, normalize, x1, x2, T1, T2, F, err, printed, result, calls, rvars, mvars>>

\* lines 91-93
Solve ==
    /\ pc = "solve"
    /\ IF HasNaN(A)
       THEN /\ err' = "LinAlgError" /\ pc' = "uncaught" /\ F' = F
       ELSE /\ F' = NullVector(A) /\ pc' = "rank2" /\ err' = err
    /\ ran' = ran \cup {"svd"}
    /\ UNCHANGED <<inp, heap, normalize, x1, x2, T1, T2, A, printed, result, calls, rvars, mvars>>

\* lines 96-97
Rank2 ==
    /\ pc = "rank2"
    /\ F' = LowerRank(F)
    /\ pc' = IF normalize THEN "denorm" ELSE "return"
    /\ ran' = ran \cup {"rank2"}
    /\ UNCHANGED <<inp, heap, normalize, x1, x2, T1, T2, A, err, printed, result, calls, rvars, mvars>>

\* lines 99-101
Denorm ==
    /\ pc = "denorm"
    /\ F' = Denormalize(F, T1, T2)
    /\ pc' = "return"
    /\ ran' = ran \cup {"denormalize"}
    /\ UNCHANGED <<inp, heap, normalize, x1, x2, T1, T2, A, err, printed, result, calls, rvars, mvars>>

\* lines 102 and 16
Return ==
    /\ pc = "return"
    /\ result' = Matrix(F)
    /\ pc' = "idle"
    /\ UNCHANGED <<inp, heap, normalize, x1, x2, T1, T2, A, F, ran, err, printed, calls, rvars, mvars>>

\* lines 17-19: except ShapeError
Except ==
    /\ pc = "except"
    /\ printed' = err
    /\ result' = ReturnedNone
    /\ pc' = "idle"
    /\ UNCHANGED <<inp, heap, normalize, x1, x2, T1, T2, A, F, ran, err, calls, rvars, mvars>>

\* an exception that is no ShapeError leaves fundamental_matrix
Uncaught ==
    /\ pc = "uncaught"
    /\ result' = Raised(err)
    /\ pc' = "idle"
    /\ UNCHANGED <<inp, heap, normalize, x1, x2, T1, T2, A, F, ran, err, printed, calls, rvars, mvars>>

PNext ==
    \/ \E n \in BOOLEAN : Call(n)
    \/ Process
    \/ Normalize1
    \/ Normalize2
    \/ Build
    \/ Solve
    \/ Rank2
    \/ Denorm
    \/ Return
    \/ Except
    \/ Uncaught

(***************************************************************************)
(* The rank-2 step and the denormalization on matrices with numbers.       *)
(* np.linalg.svd(F) returns some U, D, V with F = U diag(D) V, U and V     *)
(* orthogonal and D non-negative and descending.                           *)
(***************************************************************************)
MaxSV == 2         \* largest singular value of the reshaped null vector

Z == Q(0)
I == Q(1)
H == <<0, 1, 2>>   \* sqrt(2)/2

\* orthogonal matrices: identity, a cyclic permutation, a swap with a sign,
\* and a turn by 45 degrees
Orthogonal ==
    { << <<I, Z, Z>>, <<Z, I, Z>>, <<Z, Z, I>> >>,
      << <<Z, I, Z>>, <<Z, Z, I>>, <<I, Z, Z>> >>,
      << <<Z, Z, QNeg(I)>>, <<Z, I, Z>>, <<I, Z, Z>> >>,
      << <<H, QNeg(H), Z>>, <<H, H, Z>>, <<Z, Z, I>> >> }

Descending == { d \in [1..3 -> 0..MaxSV] : d[1] >= d[2] /\ d[2] >= d[3] }

\* np.diag
Diag(d) == [r \in 1..3 |-> [c \in 1..3 |-> IF r = c THEN Q(d[r]) ELSE Q(0)]]

Compose(U, D, V) == MatMul(MatMul(U, Diag(D)), V)

\* line 97 with the smallest singular value kept
RankTwoKeepAll(U, D, V) == MatMul(MatMul(U, Diag(<<D[1], D[2], D[3]>>)), V)

\* line 97: F = np.dot(np.dot(U, np.diag([D[0], D[1], 0])), V)
RankTwo(U, D, V) == MatMul(MatMul(U, Diag(<<D[1], D[2], 0>>)), V)

\* line 101: F = np.dot(np.dot(T2.T, F), T1)
DenormalizeMatrix(M, Ta, Tb) == MatMul(MatMul(Transpose(Tb), M), Ta)

\* lines 142-152 for a mean distance m and a centroid c
TransformOf(m, c) == Similarity(QDiv(Sqrt2, m), c)

\* transforms of the normalizer: mean distance 5 about (10, 10), 40/9 about (20, 12)
Transforms ==
    { TransformOf(Q(5), <<Q(10), Q(10)>>), TransformOf(<<40, 0, 9>>, <<Q(20), Q(12)>>) }

Det3(M) ==
    QAdd(QSub(QMul(M[1][1], QSub(QMul(M[2][2], M[3][3]), QMul(M[2][3], M[3][2]))),
              QMul(M[1][2], QSub(QMul(M[2][1], M[3][3]), QMul(M[2][3], M[3][1])))),
         QMul(M[1][3], QSub(QMul(M[2][1], M[3][2]), QMul(M[2][2], M[3][1]))))

\* some 2 x 2 minor is not zero
HasRank2Minor(M) ==
    \E r1, r2, c1, c2 \in 1..3 :
        /\ r1 < r2 /\ c1 < c2
        /\ QSub(QMul(M[r1][c1], M[r2][c2]), QMul(M[r1][c2], M[r2][c1])) # Q(0)


NoSvd == [U |-> << >>, D |-> << >>, V |-> << >>]

\* diagonal sign matrices S: U S diag(D) S V = U diag(D) V, the freedom a
\* singular value decomposition leaves to the library
Signs ==
    { << <<I, Z, Z>>, <<Z, I, Z>>, <<Z, Z, I>> >>,
      << <<I, Z, Z>>, <<Z, I, Z>>, <<Z, Z, QNeg(I)>> >>,
      << <<QNeg(I), Z, Z>>, <<Z, QNeg(I), Z>>, <<Z, Z, I>> >> }

RIdle ==
    /\ rpc = "off" /\ rnorm = FALSE /\ rF0 = NoSvd /\ rsvd = NoSvd
    /\ rF = << >> /\ rT = << >>

\* the reshaped null vector, given by factors U diag(D) V of it, and the
\* transforms of the normalizer when normalization was requested
RInit ==
    /\ rpc = "svd"
    /\ rnorm \in BOOLEAN
    /\ rF0 \in [U : Orthogonal, D : Descending, V : Orthogonal]
    /\ rsvd = NoSvd
    /\ rF = << >>
    /\ IF rnorm THEN rT \in Transforms \X Transforms ELSE rT = << >>

\* line 96: (U, D, V) = np.linalg.svd(F)
SvdOfF ==
    /\ rpc = "svd"
    /\ \E S \in Signs :
          rsvd' = [U |-> MatMul(rF0.U, S), D |-> rF0.D, V |-> MatMul(S, rF0.V)]
    /\ rpc' = "rank2"
    /\ UNCHANGED <<rnorm, rF0, rF, rT, pvars, mvars>>

\* line 97
RankTwoStep ==
    /\ rpc = "rank2"
    /\ rF' = RankTwo(rsvd.U, rsvd.D, rsvd.V)
    /\ rpc' = IF rnorm THEN "denorm" ELSE "done"
    /\ UNCHANGED <<rnorm, rF0, rsvd, rT, pvars, mvars>>

\* lines 99-101
DenormStep ==
    /\ rpc = "denorm"
    /\ rF' = DenormalizeMatrix(rF, rT[1], rT[2])
    /\ rpc' = "done"
    /\ UNCHANGED <<rnorm, rF0, rsvd, rT, pvars, mvars>>

RNext ==
    \/ SvdOfF
    \/ RankTwoStep
    \/ DenormStep

(***************************************************************************)
(* The error metrics of Q1.py.                                             *)
(***************************************************************************)
MaxPts == 2        \* longest list of correspondences handed to a metric

\* correspondences with their epipolar lines: [l_pt, r_pt, l_line, r_line]
Samples ==
    { [l_pt |-> <<1, 2>>, r_pt |-> <<3, 1>>, l_line |-> <<3, 4, -11>>, r_line |-> <<0, 1, -1>>],
      [l_pt |-> <<1, 2>>, r_pt |-> <<3, 1>>, l_line |-> <<3, 4, -1>>, r_line |-> <<0, 1, -3>>],
      [l_pt |-> <<1, 2>>, r_pt |-> <<3, 1>>, l_line |-> <<6, 8, -2>>, r_line |-> <<0, 2, -6>>],
      [l_pt |-> <<0, 5>>, r_pt |-> <<2, 2>>, l_line |-> <<4, 3, 5>>, r_line |-> <<3, -4, 12>>],
      [l_pt |-> <<2, 0>>, r_pt |-> <<1, 1>>, l_line |-> <<1, 0, 3>>, r_line |-> <<8, 6, -4>>] }

SampleLists == UNION { [1..n -> Samples] : n \in 1..MaxPts }

QVec(v) == [k \in 1..Len(v) |-> Q(v[k])]

\* np.dot((pt[0], pt[1], 1), line)
Residual(pt, line) == Dot(QVec(<<pt[1], pt[2], 1>>), QVec(line))

\* lines 93-94: the squared residual over np.sqrt(a**2 + b**2)
LineTerm(pt, line) ==
    QDiv(QMul(Residual(pt, line), Residual(pt, line)),
         QSqrt(Q(line[1] * line[1] + line[2] * line[2])))

\* lines 90-99 once img_left.shape has been read
epipolar_sum(s) ==
    QDiv(QSum([i \in 1..Len(s) |->
                 QAdd(LineTerm(s[i].l_pt, s[i].l_line), LineTerm(s[i].r_pt, s[i].r_line))]),
         Q(Len(s)))

\* lines 104-110
algebraic_sum(s) ==
    QDiv(QSum([i \in 1..Len(s) |-> QAbs(Residual(s[i].r_pt, s[i].r_line))]), Q(Len(s)))


Unbound == [state |-> "unbound", shape |-> << >>]

MIdle ==
    /\ img_left = Unbound /\ margs = << >> /\ mcall = "" /\ mres = NoResult

MInit == MIdle

Value(v) == [kind |-> "value", v |-> v]

\* line 123: img_left = cv2.imread(path); None when the file cannot be read
ImRead(ok) ==
    /\ img_left' = IF ok THEN [state |-> "image", shape |-> <<480, 640, 3>>]
                   ELSE [state |-> "None", shape |-> << >>]
    /\ UNCHANGED <<margs, mcall, mres, pvars, rvars>>

\* lines 87-99
EpipolarDistance(s) ==
    /\ margs' = s
    /\ mcall' = "epipolar_distance"
    /\ mres' = IF img_left.state = "unbound" THEN Raised("NameError")
               ELSE IF img_left.state = "None" THEN Raised("AttributeError")
               ELSE Value(epipolar_sum(s))
    /\ UNCHANGED <<img_left, pvars, rvars>>

\* lines 102-110
AlgebraicDistance(s) ==
    /\ margs' = s
    /\ mcall' = "algebraic_distance"
    /\ mres' = Value(algebraic_sum(s))
    /\ UNCHANGED <<img_left, pvars, rvars>>

MNext ==
    \/ \E ok \in BOOLEAN : ImRead(ok)
    \/ \E s \in SampleLists : EpipolarDistance(s)
    \/ \E s \in SampleLists : AlgebraicDistance(s)

(***************************************************************************)
(* Specifications.                                                         *)
(***************************************************************************)
Init == PInit /\ RIdle /\ MIdle

Next == PNext

Spec == Init /\ [][Next]_vars

InitRank == RInit /\ PIdle /\ MIdle

SpecRank == InitRank /\ [][RNext]_vars

InitMetrics == MInit /\ PIdle /\ RIdle

SpecMetrics == InitMetrics /\ [][MNext]_vars

(***************************************************************************)
(* The error kinds of the specification, read off the messages raised.     *)
(***************************************************************************)
KindOf(msg) ==
    IF msg = "" THEN ""
    ELSE IF msg \in {MsgSameSize, Msg2D} THEN "ShapeMismatch"
    ELSE IF msg = MsgAtLeast8 THEN "InsufficientPoints"
    ELSE IF msg \in {MsgPairDims, MsgSingleDims, Msg3xN} THEN "InvalidDimensionality"
    ELSE "Other"

\* the caller's arrays of the call
LeftArray == heap["a"]
RightArray == IF inp.form = "pair" THEN heap["b"] ELSE heap["a"]

\* the validation rules in their stated order: the kind of the first rule the
\* arrays violate, "" when they violate none
RuleViolated ==
    LET s == LeftArray.shape
    IN  IF inp.form = "pair" /\ s # RightArray.shape THEN "ShapeMismatch"
        ELSE IF Len(s) # 2 THEN "ShapeMismatch"
        ELSE IF Max2(s) < 8 THEN "InsufficientPoints"
        ELSE IF inp.form = "pair" /\ Min2(s) \notin {2, 3} THEN "InvalidDimensionality"
        ELSE IF inp.form = "single" /\ Min2(s) \notin {4, 6} THEN "InvalidDimensionality"
        ELSE ""

\* no third coordinate of the 3 x N set is above machine epsilon in magnitude
NoFinitePoint(P) == \A i \in 1..Len(P[3]) : ~GtEps(QAbs(P[3][i]))

\* the call asks for normalization of a point set without a finite point
DegenerateCall ==
    /\ normalize
    /\ RuleViolated = ""
    /\ LET p == process_input_pointpairs(heap, ArgsOf(inp))
       IN  NoFinitePoint(Val(heap, p.x1)) \/ NoFinitePoint(Val(heap, p.x2))

\* the error the pipeline is to detect in the call, "" when there is none
DetectedError ==
    IF RuleViolated # "" THEN RuleViolated
    ELSE IF DegenerateCall THEN "DegenerateInput" ELSE ""

\* the call ended with the error kind e and no matrix: a typed error value, or
\* the handler's None with the message of that kind
EndedWith(e) ==
    \/ result.kind = "error" /\ result.error = e
    \/ result.kind = "None" /\ KindOf(printed) = e

CallOver == pc = "idle" /\ calls > 0 /\ inp.form # "empty"

(***************************************************************************)
(* C1: fundamental_matrix never mutates the caller's arrays: after a call, *)
(* for every layout and for normalize true and false, each element of each *)
(* caller array has the value it had before the call.                      *)
(***************************************************************************)
C1_CallerArraysUnchanged == (pc = "idle" /\ calls = 1) => heap = Orig

(***************************************************************************)
(* C2: a finished call returned a matrix when the input has no error, and  *)
(* otherwise ended with the kind of the detected error and no matrix,      *)
(* without running a stage after the one that detects it.                  *)
(***************************************************************************)
C2_MatrixOrTypedError ==
    CallOver =>
        IF DetectedError = "" THEN result.kind = "matrix"
        ELSE /\ EndedWith(DetectedError)
             /\ ran \subseteq (IF DetectedError = "DegenerateInput"
                               THEN {"preprocess", "normalize"} ELSE {"preprocess"})

(***************************************************************************)
(* C3: the preprocessor applies its rules in order and the first violated  *)
(* one decides the error: differing shapes or non-2D input ShapeMismatch,  *)
(* else fewer than 8 points InsufficientPoints, else a smaller dimension   *)
(* outside {2, 3} InvalidDimensionality; a single 2-D array with 8 or more *)
(* points and a width other than 4 or 6 gives InvalidDimensionality; input *)
(* that violates no rule is accepted.                                      *)
(***************************************************************************)
C3_ValidationOrder ==
    (pc \in {"except", "norm1", "build"} /\ ran = {"preprocess"}) =>
        /\ inp.form = "pair" => KindOf(err) = RuleViolated
        /\ (inp.form = "single" /\ Len(LeftArray.shape) = 2 /\ Max2(LeftArray.shape) >= 8) =>
              KindOf(err) = (IF Min2(LeftArray.shape) \in {4, 6}
                             THEN "" ELSE "InvalidDimensionality")
        /\ (pc = "except") = (err # "")

\* a pair of 5 x 7 arrays was rejected for its 7 points, not for its 5 rows
C3_Witness ==
    /\ pc = "except" /\ inp.form = "pair"
    /\ LeftArray.shape = <<5, 7>> /\ RightArray.shape = <<5, 7>>
    /\ KindOf(err) = "InsufficientPoints"

(***************************************************************************)
(* C4: a call that asks for normalization of a point set without a finite  *)
(* point ends with the DegenerateInput error and no matrix.                *)
(***************************************************************************)
C4_DegenerateInputReported ==
    (CallOver /\ DegenerateCall) => EndedWith("DegenerateInput")

(***************************************************************************)
(* C5: for every accepted layout the preprocessor yields two 3 x N sets    *)
(* whose column i is point i of the left and of the right view: x and y    *)
(* and a 1 for Euclidean input, the three coordinates as they are for      *)
(* homogeneous input, the first half of a combined array left and the      *)
(* second half right, the same for row-major and column-major layouts.     *)
(***************************************************************************)
\* the canonical set of a view, from the points the caller built its arrays of
Canonical(side) ==
    [k \in 1..3 |-> [i \in 1..inp.n |->
        Q(IF inp.d \in {2, 4} THEN (Pt(side, inp.n, i) \o <<1>>)[k]
          ELSE Hom(side, inp.n, i, inp.w, inp.mask)[k])]]

\* the canonical set of a view, from the array as it is now
CanonicalNow(side) ==
    LET arr == IF side = "L" THEN LeftArray ELSE RightArray
        off == IF inp.form = "single" /\ side = "R" THEN inp.d \div 2 ELSE 0
    IN  [k \in 1..3 |-> [i \in 1..inp.n |->
            IF inp.d \in {2, 4} /\ k = 3 THEN Q(1)
            ELSE IF arr.shape[1] = inp.n THEN arr.data[i][off + k]
            ELSE arr.data[off + k][i]]]

C5_CanonicalPointSets ==
    (pc \in {"norm1", "build"} /\ ran = {"preprocess"}) =>
        /\ Val(heap, x1) = CanonicalNow("L")
        /\ Val(heap, x2) = CanonicalNow("R")
        /\ x1.rows = 3 /\ x2.rows = 3 /\ x1.n = inp.n /\ x2.n = inp.n
        /\ calls = 1 => Val(heap, x1) = Canonical("L") /\ Val(heap, x2) = Canonical("R")

\* a combined N x 6 array of homogeneous points of weight 2 was split
C5_Witness ==
    /\ pc \in {"norm1", "build"} /\ ran = {"preprocess"}
    /\ inp.form = "single" /\ inp.d = 6 /\ inp.tall /\ inp.w = 2 /\ inp.mask = "none"
    /\ Val(heap, x2)[3][1] = Q(2)

(***************************************************************************)
(* C6: calls are independent: whatever calls came before, a call returns   *)
(* what the same call returns as the first call on the caller's arrays.    *)
(***************************************************************************)
C6_CallsIndependent ==
    (pc = "idle" /\ calls > 0) =>
        result = fundamental_matrix(Orig, ArgsOf(inp), normalize).result

(***************************************************************************)
(* C7: the matrix the solver returns, denormalized or not, has rank at     *)
(* most 2 (its determinant is 0), and only the smallest singular value was *)
(* zeroed: with a second singular value above 0 the rank is 2.             *)
(***************************************************************************)
C7_RankAtMostTwo ==
    rpc = "done" =>
        /\ Det3(rF) = Q(0)
        /\ rF0.D[2] > 0 => HasRank2Minor(rF)

\* a null vector of full rank was lowered to rank 2 and denormalized
C7_Witness == rpc = "done" /\ rnorm /\ rF0.D[3] > 0

(***************************************************************************)
(* C8: the symmetric epipolar distance is the mean over the                *)
(* correspondences of the two squared residuals, each divided by the       *)
(* squared norm a^2 + b^2 of its line's normal.                            *)
(***************************************************************************)
ClaimedTerm(pt, line) ==
    QDiv(QMul(Residual(pt, line), Residual(pt, line)),
         Q(line[1] * line[1] + line[2] * line[2]))

ClaimedDistance(s) ==
    QDiv(QSum([i \in 1..Len(s) |->
                 QAdd(ClaimedTerm(s[i].l_pt, s[i].l_line),
                      ClaimedTerm(s[i].r_pt, s[i].r_line))]),
         Q(Len(s)))

C8_SquaredNormDivides ==
    (mcall = "epipolar_distance" /\ mres.kind = "value") =>
        mres.v = ClaimedDistance(margs)

(***************************************************************************)
(* C9: row i of the constraint matrix is the expansion                     *)
(* [x2 x1, x2 y1, x2, y2 x1, y2 y1, y2, x1, y1, 1] of the de-homogenized   *)
(* coordinates (x/w, y/w) of point i of the two sets that reach the        *)
(* builder, with normalization on or off.                                  *)
(***************************************************************************)
Dehomogenized(P, i) == <<QDiv(P[1][i], P[3][i]), QDiv(P[2][i], P[3][i])>>

Expansion(a, b) ==
    << QMul(b[1], a[1]), QMul(b[1], a[2]), b[1],
       QMul(b[2], a[1]), QMul(b[2], a[2]), b[2], a[1], a[2], Q(1) >>

C9_RowsOfDehomogenized ==
    pc = "solve" =>
        LET P1 == Val(heap, x1)
            P2 == Val(heap, x2)
        IN  /\ Len(A) = inp.n
            /\ \A i \in 1..inp.n :
                  (GtEps(P1[3][i]) /\ GtEps(P2[3][i])) =>
                      A[i] = Expansion(Dehomogenized(P1, i), Dehomogenized(P2, i))

(***************************************************************************)
(* C10: each metric succeeds on valid arguments whatever else the program  *)
(* holds, and its value is a function of the arguments alone.              *)
(***************************************************************************)
C10_MetricsStateless ==
    mcall # "" =>
        /\ mres.kind = "value"
        /\ mres.v = (IF mcall = "epipolar_distance" THEN epipolar_sum(margs)
                     ELSE algebraic_sum(margs))

====
